---- MODULE Spec2Model ----
(***************************************************************************)
(* Knowledge-map: the App component's graph state (addToGraph,             *)
(* handleSearch, handleNodeClick, handleNodeLongPress), the Gemini service *)
(* wrappers (generateRelatedNodes, generateExplanation) and the            *)
(* GraphVisualization update effect with its drag / long-press / click     *)
(* handlers.                                                               *)
(*                                                                         *)
(* React commits the state updates of one handler (or of one continuation  *)
(* after an await) in one batch and then re-runs the update effect when    *)
(* one of its dependencies changed; an action below is one such batch      *)
(* together with the effect run it causes.                                 *)
(***************************************************************************)
EXTENDS Integers, Sequences, FiniteSets, TLC

\* ------------------------------------------------------------------ bounds
MaxIds == 3          \* node ids handed out over a run (roots and children)
MaxItems == 2        \* items in one oracle batch
MaxInFlight == 2     \* oracle requests in flight at once
MaxTimers == 2       \* long-press timers not yet due
MaxPointers == 2     \* pointers (mouse, touches) that can be down at once

Labels == {"a", "b", "B", "c"}
Terms == {"A"}
Relations == {"rel"}
RelationTypes == {"hierarchical"}
ItemExplanations == {"", "ie", "i2"}
OracleTexts == {"", "tx"}
Modes == {"default", "precise"}
Pointers == 1..MaxPointers
TimerIds == 1..MaxTimers
Ids == 1..MaxIds

\* ------------------------------------------------------- values and types
NoId == 0            \* null / undefined id
NoTimer == 0         \* longPressTimer === null
StaleTimer == -1     \* a handle of a timer that has already run
NoKey == 0           \* effect run in which no node entered

FailedMsg == "Failed to generate explanation."
NoExplMsg == "No explanation available."

\* String.prototype.toLowerCase on the labels of the model
ToLower(s) ==
  CASE s = "A" -> "a"
    [] s = "B" -> "b"
    [] OTHER -> s

Keys == {ToLower(l) : l \in Labels \cup Terms}

getColorForType(type) ==
  CASE type = "positive" -> "#22c55e"
    [] type = "negative" -> "#ef4444"
    [] type = "competitor" -> "#f97316"
    [] type = "hierarchical" -> "#3b82f6"
    [] OTHER -> "#94a3b8"

\* a GraphNode object: its id, which copy of the object it is (handleSearch
\* replaces the root by a spread copy), and its label
NoNode == [id |-> NoId, ver |-> 0, label |-> ""]
Ref(n) == <<n.id, n.ver>>
\* (a merge is evaluated before its ids are checked against MaxIds)
ObjRefs == (1..(MaxIds + MaxItems)) \X {0, 1}

Items == [label : Labels, relation : Relations,
          relationType : RelationTypes, explanation : ItemExplanations]
Batches == UNION {[1..n -> Items] : n \in 0..MaxItems}

\* what the Gemini call does: throws, answers without text, or answers
RelatedOutcomes ==
  {[kind |-> "error", items |-> <<>>], [kind |-> "notext", items |-> <<>>]}
    \cup {[kind |-> "ok", items |-> b] : b \in Batches}
ExplanationOutcomes ==
  {[kind |-> "error", text |-> ""]} \cup {[kind |-> "ok", text |-> t] : t \in OracleTexts}

generateRelatedNodes_FallbackItem(o) ==
  IF o.kind = "ok" THEN o.items
  ELSE <<[label |-> "b", relation |-> "rel", relationType |-> "hierarchical",
          explanation |-> ""]>>

generateRelatedNodes(o) ==
  IF o.kind = "ok" THEN o.items ELSE <<>>

generateExplanation(o) ==
  IF o.kind = "error" THEN FailedMsg
  ELSE IF o.text = "" THEN NoExplMsg ELSE o.text

Max(S) == CHOOSE x \in S : \A y \in S : y <= x
Min(S) == CHOOSE x \in S : \A y \in S : x <= y
NodeIds(nodes) == {nodes[i].id : i \in 1..Len(nodes)}

\* ------------------------------------------------------------- addToGraph
\* new Map(nextNodes.map(n => [n.label.toLowerCase(), n])): a later entry
\* with the same key replaces an earlier one
NodeMapOf(nodes) ==
  [k \in Keys |->
     LET S == {i \in 1..Len(nodes) : ToLower(nodes[i].label) = k}
     IN IF S = {} THEN NoNode ELSE nodes[Max(S)]]

ItemKey_CaseSensitive(label) == label

\* itemKey = itemLabel.toLowerCase()
ItemKey(label) == ToLower(label)

edgeExists_StringsOnly(edges, sourceId, targetId) ==
  \E i \in 1..Len(edges) :
     LET e == edges[i] IN
       \/ ~e.resolved /\ e.source = sourceId /\ e.target = targetId
       \/ ~e.resolved /\ e.source = targetId /\ e.target = sourceId

\* nextEdges.some(...): an endpoint still a string compares equal to an id,
\* an endpoint resolved to a node object compares through its .id
edgeExists(edges, sourceId, targetId) ==
  \E i \in 1..Len(edges) :
     LET e == edges[i] IN
       \/ ~e.resolved /\ e.source = sourceId /\ e.target = targetId
       \/ ~e.resolved /\ e.source = targetId /\ e.target = sourceId
       \/ e.resolved /\ e.source = sourceId /\ e.target = targetId

ShouldAddEdge_NoSelfCheck(edges, sourceId, targetId) ==
  ~edgeExists(edges, sourceId, targetId)

\* if (!edgeExists && sourceNode.id !== targetNodeId)
ShouldAddEdge(edges, sourceId, targetId) ==
  ~edgeExists(edges, sourceId, targetId) /\ sourceId # targetId

Backfill_Overwrite(exp, existingNode, item) ==
  IF item.explanation # ""
  THEN [exp EXCEPT ![Ref(existingNode)] = item.explanation]
  ELSE exp

\* if (!existingNode.explanation && item.explanation)
\*   existingNode.explanation = item.explanation
Backfill(exp, existingNode, item) ==
  IF exp[Ref(existingNode)] = "" /\ item.explanation # ""
  THEN [exp EXCEPT ![Ref(existingNode)] = item.explanation]
  ELSE exp

SetInMap_Forgotten(map, key, newNode) == map

\* nodeMap.set(itemKey, newNode)
SetInMap(map, key, newNode) ==
  [k \in DOMAIN map \cup {key} |-> IF k = key THEN newNode ELSE map[k]]

PushNode_Front(nodes, newNode) == <<newNode>> \o nodes

\* nextNodes.push(newNode)
PushNode(nodes, newNode) == Append(nodes, newNode)

\* one iteration of newItems.forEach over the accumulator
\* g = [nodes, edges, map, exp, next]
MergeItem(g, sourceNode, item) ==
  LET key == ItemKey(item.label)
      found == key \in DOMAIN g.map /\ g.map[key] # NoNode
      existingNode == g.map[key]
      newNode == [id |-> g.next, ver |-> 0, label |-> item.label]
      target == IF found THEN existingNode ELSE newNode
      nodes2 == IF found THEN g.nodes ELSE PushNode(g.nodes, newNode)
      map2 == IF found THEN g.map ELSE SetInMap(g.map, key, newNode)
      exp2 == IF found
              THEN Backfill(g.exp, existingNode, item)
              ELSE [g.exp EXCEPT ![Ref(newNode)] = item.explanation]
      edges2 == IF ShouldAddEdge(g.edges, sourceNode.id, target.id)
                THEN Append(g.edges, [source |-> sourceNode.id, target |-> target.id,
                                      relation |-> item.relation,
                                      color |-> getColorForType(item.relationType),
                                      resolved |-> FALSE])
                ELSE g.edges
  IN [nodes |-> nodes2, edges |-> edges2, map |-> map2, exp |-> exp2,
      next |-> IF found THEN g.next ELSE g.next + 1]

RECURSIVE MergeItems(_, _, _, _)
MergeItems(g, sourceNode, newItems, i) ==
  IF i > Len(newItems) THEN g
  ELSE MergeItems(MergeItem(g, sourceNode, newItems[i]), sourceNode, newItems, i + 1)

addToGraph_AppendsSource(prevData, exp, next, sourceNode, newItems) ==
  LET g0 == [nodes |-> Append(prevData.nodes, sourceNode), edges |-> prevData.edges,
             map |-> NodeMapOf(prevData.nodes), exp |-> exp, next |-> next]
      g == MergeItems(g0, sourceNode, newItems, 1)
  IN [data |-> [nodes |-> g.nodes, edges |-> g.edges], exp |-> g.exp, next |-> g.next]

\* the updater addToGraph passes to setData, applied to prevData; exp is the
\* explanation field of every node object and next the next unused id
addToGraph(prevData, exp, next, sourceNode, newItems) ==
  LET g0 == [nodes |-> prevData.nodes, edges |-> prevData.edges,
             map |-> NodeMapOf(prevData.nodes), exp |-> exp, next |-> next]
      g == MergeItems(g0, sourceNode, newItems, 1)
  IN [data |-> [nodes |-> g.nodes, edges |-> g.edges], exp |-> g.exp, next |-> g.next]

VARIABLES data, nodeExp, nextId, activeNodeId, loadingNodeId, explanation,
          isLoadingGraph, isLoadingExplanation, searchMode, pending,
          closures, current, bind, presses, timers, pinned, crashed, last

vars == <<data, nodeExp, nextId, activeNodeId, loadingNodeId, explanation,
          isLoadingGraph, isLoadingExplanation, searchMode, pending,
          closures, current, bind, presses, timers, pinned, crashed, last>>

\* --------------------------------------------------- renderer bookkeeping
\* the three let-variables and the onNodeLongPress prop one run of the
\* update effect closes over; mode is the searchMode that prop captured
FreshClosure(mode) ==
  [isDragging |-> FALSE, longPressTimer |-> NoTimer,
   longPressTriggered |-> FALSE, mode |-> mode]

IdlePress ==
  [active |-> FALSE, node |-> NoNode, cl |-> NoKey, tid |-> NoTimer,
   moved |-> FALSE, movedEarly |-> FALSE, held |-> FALSE, lp |-> 0]

LastNone ==
  [op |-> "none", moved |-> FALSE, movedEarly |-> FALSE,
   held |-> FALSE, lp |-> 0, click |-> 0, resolved |-> FALSE,
   relFailed |-> FALSE, expFailed |-> FALSE, selfItem |-> FALSE,
   caseDup |-> FALSE, stale |-> FALSE, srcMissing |-> FALSE,
   allNew |-> FALSE, distinct |-> 0, reExp |-> FALSE, unlinked |-> FALSE,
   dupKey |-> "", dupFirst |-> ""]

RemoveAt(s, i) == SubSeq(s, 1, i - 1) \o SubSeq(s, i + 1, Len(s))
Drop(f, x) == [y \in DOMAIN f \ {x} |-> f[y]]

\* the datum bound to the DOM element of node id: the object in data.nodes
NodeOf(nodes, id) ==
  LET S == {i \in 1..Len(nodes) : nodes[i].id = id}
  IN IF S = {} THEN NoNode ELSE nodes[Min(S)]

\* forceLink.links(edges) cannot resolve an endpoint id that no node has
\* (d3-force throws "node not found" from inside the effect)
Dangling(d) ==
  \E i \in 1..Len(d.edges) :
     ~d.edges[i].resolved
     /\ (d.edges[i].source \notin NodeIds(d.nodes) \/ d.edges[i].target \notin NodeIds(d.nodes))

\* forceLink.links(edges) replaces the endpoint ids of every edge object by
\* the node objects (the edge objects are shared with the React state)
ResolveLinks(edges) ==
  [i \in 1..Len(edges) |-> [edges[i] EXCEPT !.resolved = TRUE]]

\* one run of the update effect on data d: the nodes whose id has no element
\* yet enter and get this run's dragBehavior; every element gets this run's
\* click handler; closures nothing refers to any more are forgotten
RunEffect(d, mode, cls, bnd, prs, tms) ==
  LET ids == NodeIds(d.nodes)
      entering == ids \ DOMAIN bnd
      key == IF entering = {} THEN NoKey ELSE Min(entering)
      bnd2 == [id \in ids |-> IF id \in DOMAIN bnd THEN bnd[id] ELSE key]
      keep == {bnd2[id] : id \in ids}
                \cup {prs[p].cl : p \in {q \in Pointers : prs[q].active}}
                \cup {tms[t].cl : t \in DOMAIN tms}
                \cup {key}
  IN [data |-> IF Dangling(d) THEN d ELSE [d EXCEPT !.edges = ResolveLinks(d.edges)],
      closures |-> [k \in keep |-> IF k = key THEN FreshClosure(mode) ELSE cls[k]],
      current |-> key,
      bind |-> bnd2,
      crashed |-> Dangling(d)]

\* commit of one batch of state updates, and the effect run when one of
\* [data, activeNodeId, loadingNodeId, onNodeClick, onNodeLongPress] changed
\* (onNodeLongPress changes with searchMode; setData always makes a new object)
Commit(d, dataSet, active, loading, mode, cls, prs, tms) ==
  LET rerun == dataSet \/ active # activeNodeId \/ loading # loadingNodeId
                 \/ mode # searchMode
  IN /\ activeNodeId' = active
     /\ loadingNodeId' = loading
     /\ searchMode' = mode
     /\ presses' = prs
     /\ timers' = tms
     /\ IF rerun
        THEN \E r \in {RunEffect(d, mode, cls, bind, prs, tms)} :
             /\ data' = r.data
             /\ closures' = r.closures
             /\ current' = r.current
             /\ bind' = r.bind
             /\ crashed' = r.crashed
        ELSE /\ data' = d
             /\ closures' = cls
             /\ UNCHANGED <<current, bind, crashed>>

\* the node objects something still refers to: the graph, a handler awaiting
\* the oracle, a gesture in progress, a timer callback
LiveRefs(d, pend, prs, tms) ==
  {Ref(d.nodes[i]) : i \in 1..Len(d.nodes)}
    \cup {Ref(pend[i].node) : i \in 1..Len(pend)}
    \cup {Ref(prs[p].node) : p \in {q \in Pointers : prs[q].active}}
    \cup {Ref(tms[t].node) : t \in DOMAIN tms}

\* the explanation and the pin (fx, fy) of the node objects after a step;
\* the fields of an object nothing refers to any more are forgotten
Finish(exp, pin) ==
  LET live == LiveRefs(data', pending', presses', timers')
  IN /\ nodeExp' = [r \in DOMAIN exp |-> IF r \in live THEN exp[r] ELSE ""]
     /\ pinned' = pin \cap live

\* ------------------------------------------------------------------- Init
Init ==
  /\ data = [nodes |-> <<>>, edges |-> <<>>]
  /\ nodeExp = [r \in ObjRefs |-> ""]
  /\ nextId = 1
  /\ activeNodeId = NoId
  /\ loadingNodeId = NoId
  /\ explanation = ""
  /\ isLoadingGraph = FALSE
  /\ isLoadingExplanation = FALSE
  /\ searchMode = "default"
  /\ pending = <<>>
  /\ closures = (NoKey :> FreshClosure("default"))
  /\ current = NoKey
  /\ bind = << >>
  /\ presses = [p \in Pointers |-> IdlePress]
  /\ timers = << >>
  /\ pinned = {}
  /\ crashed = FALSE
  /\ last = LastNone

\* ----------------------------------------------------------- App handlers
\* ghost: some item of the batch resolves to the source node itself
SelfItem(d, sourceNode, items) ==
  \E i \in 1..Len(items) :
     NodeMapOf(d.nodes)[ToLower(items[i].label)].id = sourceNode.id

\* ghost: some item's label differs from a node's (or an earlier item's)
\* label only in letter case
CaseDup(d, items) ==
  \E i \in 1..Len(items) :
     \/ \E j \in 1..Len(d.nodes) :
          /\ d.nodes[j].label # items[i].label
          /\ ToLower(d.nodes[j].label) = ToLower(items[i].label)
     \/ \E j \in 1..(i - 1) :
          /\ items[j].label # items[i].label
          /\ ToLower(items[j].label) = ToLower(items[i].label)

\* ghost: the source node of the merge is not a node of the graph
SourceMissing(d, sourceNode) == sourceNode.id \notin NodeIds(d.nodes)

\* ghost: no label of the (non-empty) batch is the label of a node, letter
\* case apart
AllNew(d, items) ==
  /\ items # <<>>
  /\ \A i \in 1..Len(items) : NodeMapOf(d.nodes)[ToLower(items[i].label)] = NoNode

\* ghost: the number of different labels in the batch, letter case apart
DistinctKeys(items) == Cardinality({ToLower(items[i].label) : i \in 1..Len(items)})

Linked(d, a, b) ==
  \E i \in 1..Len(d.edges) : d.edges[i].source = a /\ d.edges[i].target = b

\* ghost: every item of the (non-empty) batch names, letter case apart, the
\* source itself or a node that an edge from the source already leads to
ReExpansion(d, sourceNode, items) ==
  /\ items # <<>>
  /\ \A i \in 1..Len(items) :
        LET t == NodeMapOf(d.nodes)[ToLower(items[i].label)]
        IN t # NoNode /\ (t.id = sourceNode.id \/ Linked(d, sourceNode.id, t.id))

\* ghost: every item of the (non-empty) batch names, letter case apart, the
\* same node, which no edge connects with the source (a node of the graph)
Unlinked(d, sourceNode, items) ==
  /\ items # <<>>
  /\ ~SourceMissing(d, sourceNode)
  /\ \A i \in 1..Len(items) :
        LET t == NodeMapOf(d.nodes)[ToLower(items[i].label)]
        IN /\ ToLower(items[i].label) = ToLower(items[1].label)
           /\ t # NoNode /\ t.id # sourceNode.id
           /\ ~Linked(d, sourceNode.id, t.id) /\ ~Linked(d, t.id, sourceNode.id)

\* ghost: the batch has two items with the same label, letter case apart,
\* and different non-empty explanations
TwoWriters(items) ==
  /\ Len(items) = 2
  /\ ToLower(items[1].label) = ToLower(items[2].label)
  /\ items[1].explanation # "" /\ items[2].explanation # ""
  /\ items[1].explanation # items[2].explanation

\* the ghosts of a merge of items at sourceNode into d
MergeGhosts(d, sourceNode, items) ==
  [LastNone EXCEPT !.selfItem = SelfItem(d, sourceNode, items),
                   !.caseDup = CaseDup(d, items),
                   !.srcMissing = SourceMissing(d, sourceNode),
                   !.allNew = AllNew(d, items),
                   !.distinct = DistinctKeys(items),
                   !.reExp = ReExpansion(d, sourceNode, items),
                   !.unlinked = Unlinked(d, sourceNode, items),
                   !.dupKey = IF TwoWriters(items) THEN ToLower(items[1].label) ELSE "",
                   !.dupFirst = IF TwoWriters(items) THEN items[1].explanation ELSE ""]

\* handleSearch up to its await. The form is submitted from the text input
\* or the submit button, which is disabled while isLoadingGraph; a pointer
\* that is down on a node is not on the form
Search(term) ==
  /\ ~crashed
  /\ ~isLoadingGraph
  /\ \A p \in Pointers : ~presses[p].active
  /\ nextId <= MaxIds
  /\ Len(pending) < MaxInFlight
  /\ LET rootNode == [id |-> nextId, ver |-> 0, label |-> term]
     IN /\ Commit([nodes |-> <<rootNode>>, edges |-> <<>>], TRUE, rootNode.id,
                  rootNode.id, searchMode, closures, presses, timers)
        /\ pending' = Append(pending, [kind |-> "search", node |-> rootNode,
                                        mode |-> searchMode])
        /\ last' = LastNone
  /\ nextId' = nextId + 1
  /\ isLoadingGraph' = TRUE
  /\ explanation' = ""
  /\ UNCHANGED isLoadingExplanation
  /\ Finish(nodeExp, pinned)

\* handleSearch after Promise.all resolved: the root copy, the write to the
\* local rootNode, addToGraph, and the finally block
SearchDone(i, ro, eo) ==
  /\ ~crashed
  /\ i \in 1..Len(pending)
  /\ pending[i].kind = "search"
  /\ pending' = RemoveAt(pending, i)
  /\ LET rootNode == pending[i].node
         items == generateRelatedNodes(ro)
         rootExp == generateExplanation(eo)
         isRoot(j) == data.nodes[j].id = rootNode.id
         nodes1 == [j \in 1..Len(data.nodes) |->
                      IF isRoot(j) THEN [data.nodes[j] EXCEPT !.ver = 1]
                      ELSE data.nodes[j]]
         copied == \E j \in 1..Len(data.nodes) : isRoot(j)
         exp1 == IF copied THEN [nodeExp EXCEPT ![<<rootNode.id, 1>>] = rootExp]
                 ELSE nodeExp
         exp2 == [exp1 EXCEPT ![Ref(rootNode)] = rootExp]
         d1 == [nodes |-> nodes1, edges |-> data.edges]
     IN \E r \in {addToGraph(d1, exp2, nextId, rootNode, items)} :
        /\ r.next <= MaxIds + 1
        /\ Commit(r.data, TRUE, activeNodeId, NoId, searchMode, closures,
                  presses, timers)
        /\ nextId' = r.next
        /\ Finish(r.exp, IF copied /\ <<rootNode.id, 0>> \in pinned
                         THEN pinned \cup {<<rootNode.id, 1>>} ELSE pinned)
        /\ last' = [MergeGhosts(d1, rootNode, items) EXCEPT
                       !.op = "searchDone",
                       !.relFailed = (ro.kind = "error"),
                       !.expFailed = (eo.kind = "error")]
  /\ isLoadingGraph' = FALSE
  /\ UNCHANGED <<explanation, isLoadingExplanation>>

\* handleNodeLongPress after its await: addToGraph and the finally block
ExpandDone(i, ro) ==
  /\ ~crashed
  /\ i \in 1..Len(pending)
  /\ pending[i].kind = "expand"
  /\ pending' = RemoveAt(pending, i)
  /\ LET node == pending[i].node
         items == generateRelatedNodes(ro)
     IN \E r \in {addToGraph(data, nodeExp, nextId, node, items)} :
        /\ r.next <= MaxIds + 1
        /\ Commit(r.data, TRUE, activeNodeId, NoId, searchMode, closures,
                  presses, timers)
        /\ nextId' = r.next
        /\ Finish(r.exp, pinned)
        /\ last' = [MergeGhosts(data, node, items) EXCEPT
                       !.op = "expandDone",
                       !.relFailed = (ro.kind = "error")]
  /\ isLoadingGraph' = FALSE
  /\ UNCHANGED <<explanation, isLoadingExplanation>>

\* handleNodeClick after its await: the cache write and the display
ExplainDone(i, eo) ==
  /\ ~crashed
  /\ i \in 1..Len(pending)
  /\ pending[i].kind = "explain"
  /\ LET text == generateExplanation(eo)
     IN /\ explanation' = text
        /\ last' = [LastNone EXCEPT !.op = "explainDone",
                                    !.expFailed = (eo.kind = "error"),
                                    !.stale = (pending[i].node.id # activeNodeId)]
  /\ isLoadingExplanation' = FALSE
  /\ pending' = RemoveAt(pending, i)
  /\ UNCHANGED <<data, nextId, activeNodeId, loadingNodeId, isLoadingGraph,
                 searchMode, closures, current, bind, presses, timers, crashed>>
  /\ Finish([nodeExp EXCEPT ![Ref(pending[i].node)] = generateExplanation(eo)], pinned)

\* onModeChange = setSearchMode, from the two toggle buttons
SetMode(m) ==
  /\ ~crashed
  /\ m # searchMode
  /\ Commit(data, FALSE, activeNodeId, loadingNodeId, m, closures, presses, timers)
  /\ last' = LastNone
  /\ UNCHANGED <<nodeExp, nextId, explanation, isLoadingGraph,
                 isLoadingExplanation, pending, pinned>>

\* handleNodeLongPress up to its await, with the searchMode its closure
\* captured; returns the state it sets
LongPressStart(node, mode) ==
  [active |-> node.id, loading |-> node.id,
   pending |-> Append(pending, [kind |-> "expand", node |-> node, mode |-> mode])]

\* handleNodeClick up to its await (or its early return on a cached
\* explanation)
ClickStart(node) ==
  LET cached == nodeExp[Ref(node)] # ""
  IN [active |-> node.id,
      explanation |-> IF cached THEN nodeExp[Ref(node)] ELSE "",
      isLoadingExplanation |-> ~cached,
      pending |-> IF cached THEN pending
                  ELSE Append(pending, [kind |-> "explain", node |-> node,
                                        mode |-> searchMode])]

\* ------------------------------------------------------- gesture handlers
\* clearTimeout(x): the timer will not run; it stays known while the press
\* that started it is still down (its 1000ms are still running)
ClearTimeout(tms, prs, x) ==
  IF x \notin DOMAIN tms THEN tms
  ELSE IF prs[tms[x].ptr].active /\ prs[tms[x].ptr].tid = x
       THEN [tms EXCEPT ![x].cleared = TRUE]
       ELSE Drop(tms, x)

\* if (longPressTimer) { clearTimeout(longPressTimer); longPressTimer = null; }
CancelPending(cls, key) == [cls EXCEPT ![key].longPressTimer = NoTimer]

\* dragBehavior.on("start"): pointer p goes down on the element of node id
\* (a new pointer is given the lowest number not in use)
Press(p, id) ==
  /\ ~crashed
  /\ ~presses[p].active
  /\ \A q \in 1..(p - 1) : presses[q].active
  /\ id \in DOMAIN bind
  /\ \A q \in Pointers : presses[q].active => presses[q].node.id # id
  /\ TimerIds \ DOMAIN timers # {}
  /\ LET d == NodeOf(data.nodes, id)
         key == bind[id]
         t == Min(TimerIds \ DOMAIN timers)
     IN /\ pinned' = pinned \cup {Ref(d)}
        /\ closures' = [closures EXCEPT ![key] =
                          [isDragging |-> FALSE, longPressTimer |-> t,
                           longPressTriggered |-> FALSE, mode |-> @.mode]]
        /\ timers' = [x \in DOMAIN timers \cup {t} |->
                        IF x = t THEN [node |-> d, cl |-> key, ptr |-> p,
                                       cleared |-> FALSE, resolved |-> FALSE]
                        ELSE timers[x]]
        /\ presses' = [presses EXCEPT ![p] =
                         [IdlePress EXCEPT !.active = TRUE, !.node = d,
                                           !.cl = key, !.tid = t]]
        /\ last' = LastNone
  /\ UNCHANGED <<data, nodeExp, nextId, activeNodeId, loadingNodeId, explanation,
                 isLoadingGraph, isLoadingExplanation, searchMode, pending,
                 current, bind, crashed>>

\* the press's own timer is resolved (ghost) once the press moved or ended
Resolve(tms, t) ==
  IF t \in DOMAIN tms THEN [tms EXCEPT ![t].resolved = TRUE] ELSE tms

\* dragBehavior.on("drag"): pointer p moves
Move(p) ==
  /\ ~crashed
  /\ presses[p].active
  /\ LET pr == presses[p]
         held == closures[pr.cl].longPressTimer
         tms1 == Resolve(timers, pr.tid)
     IN /\ timers' = IF held # NoTimer THEN ClearTimeout(tms1, presses, held) ELSE tms1
        /\ closures' = [CancelPending(closures, pr.cl) EXCEPT ![pr.cl].isDragging = TRUE]
        /\ presses' = [presses EXCEPT ![p].moved = TRUE,
                                      ![p].movedEarly = IF pr.moved THEN @ ELSE ~pr.held]
        /\ last' = LastNone
  /\ UNCHANGED <<data, nodeExp, nextId, activeNodeId, loadingNodeId, explanation,
                 isLoadingGraph, isLoadingExplanation, searchMode, pending,
                 current, bind, pinned, crashed>>

\* nodeMerge.on("click") of the latest effect run
ClickPasses(cls, cur) == ~(cls[cur].isDragging \/ cls[cur].longPressTriggered)

\* dragBehavior.on("end") for pointer p, then the click event the browser
\* dispatches on the element when the pointer did not move (d3-drag swallows
\* the click that follows a moved gesture)
Release(p) ==
  /\ ~crashed
  /\ presses[p].active
  /\ LET pr == presses[p]
         held == closures[pr.cl].longPressTimer
         prs1 == [presses EXCEPT ![p] = IdlePress]
         tms1 == Resolve(timers, pr.tid)
         tms2 == IF held # NoTimer THEN ClearTimeout(tms1, prs1, held) ELSE tms1
         tms3 == IF pr.tid \in DOMAIN tms2 /\ tms2[pr.tid].cleared
                 THEN Drop(tms2, pr.tid) ELSE tms2
         cls1 == CancelPending(closures, pr.cl)
         clickEvent == ~pr.moved /\ pr.node.id \in DOMAIN bind
         click == clickEvent /\ ClickPasses(cls1, current)
         c == ClickStart(NodeOf(data.nodes, pr.node.id))
     IN /\ click => Len(c.pending) <= MaxInFlight
        /\ IF click
           THEN /\ Commit(data, FALSE, c.active, loadingNodeId, searchMode,
                          cls1, prs1, tms3)
                /\ explanation' = c.explanation
                /\ isLoadingExplanation' = c.isLoadingExplanation
                /\ pending' = c.pending
           ELSE /\ Commit(data, FALSE, activeNodeId, loadingNodeId, searchMode,
                          cls1, prs1, tms3)
                /\ UNCHANGED <<explanation, isLoadingExplanation, pending>>
        /\ last' = [LastNone EXCEPT !.op = "release",
                                    !.moved = pr.moved, !.movedEarly = pr.movedEarly,
                                    !.held = pr.held, !.lp = pr.lp,
                                    !.click = IF click THEN 1 ELSE 0]
  /\ UNCHANGED <<nextId, isLoadingGraph>>
  /\ Finish(nodeExp, pinned \ {Ref(presses[p].node)})

\* 1000ms after the press that started timer t: the setTimeout callback runs
\* unless the timer was cleared
Due(t) ==
  /\ ~crashed
  /\ t \in DOMAIN timers
  /\ LET tm == timers[t]
         fires == ~tm.cleared
         own == presses[tm.ptr].active /\ presses[tm.ptr].tid = t
         prs1 == IF own
                 THEN [presses EXCEPT ![tm.ptr].held = TRUE,
                                      ![tm.ptr].lp = IF fires THEN @ + 1 ELSE @]
                 ELSE presses
         cls1 == IF fires
                 THEN [closures EXCEPT
                         ![tm.cl].longPressTriggered = TRUE,
                         ![tm.cl].longPressTimer = IF @ = t THEN StaleTimer ELSE @]
                 ELSE closures
         s == LongPressStart(tm.node, closures[tm.cl].mode)
     IN /\ fires => Len(s.pending) <= MaxInFlight
        /\ IF fires
           THEN /\ Commit(data, FALSE, s.active, s.loading, searchMode, cls1, prs1,
                          Drop(timers, t))
                /\ pending' = s.pending
                /\ isLoadingGraph' = TRUE
                /\ last' = [LastNone EXCEPT !.op = "longPress",
                                            !.resolved = tm.resolved]
           ELSE /\ Commit(data, FALSE, activeNodeId, loadingNodeId, searchMode,
                          cls1, prs1, Drop(timers, t))
                /\ UNCHANGED <<pending, isLoadingGraph>>
                /\ last' = LastNone
  /\ UNCHANGED <<nextId, explanation, isLoadingExplanation>>
  /\ Finish(nodeExp, pinned)

\* ------------------------------------------------------------ the program
\* oracle answers whose items carry no explanation and different labels out
\* of "a", "b", "B" (a "B" only as the last item)
PlainBatches ==
  {b \in Batches :
     /\ \A i \in 1..Len(b) : b[i].explanation = "" /\ b[i].label # "c"
     /\ \A i, j \in 1..Len(b) : i < j => b[i].label # b[j].label /\ b[i].label # "B"}
PlainRelated ==
  {[kind |-> "error", items |-> <<>>]} \cup {[kind |-> "ok", items |-> b] : b \in PlainBatches}
\* the explanation fetch of a search throws or answers; that of a click answers
Explained == {[kind |-> "error", text |-> ""], [kind |-> "ok", text |-> "tx"]}
Answered == {[kind |-> "ok", text |-> "tx"]}

\* the application driven by one pointer that does not move: searches,
\* clicks, long-press expansions and the completions of their fetches
Next ==
  \/ \E term \in Terms : Search(term)
  \/ \E i \in 1..MaxInFlight, ro \in PlainRelated, eo \in Explained :
        SearchDone(i, ro, eo)
  \/ \E i \in 1..MaxInFlight, ro \in PlainRelated : ExpandDone(i, ro)
  \/ \E i \in 1..MaxInFlight, eo \in Answered : ExplainDone(i, eo)
  \/ \E id \in Ids : Press(1, id)
  \/ Release(1)
  \/ \E t \in TimerIds : Due(t)

Spec == Init /\ [][Next]_vars

Item(label) ==
  [label |-> label, relation |-> "rel", relationType |-> "hierarchical",
   explanation |-> "ie"]

\* the state after the search of "A" was answered with items and the text
\* "tx": the root was drawn by the effect run of the search, the children by
\* the effect run of its completion
Loaded(items) ==
  LET root0 == [id |-> 1, ver |-> 0, label |-> "A"]
      root1 == [id |-> 1, ver |-> 1, label |-> "A"]
      idle == [p \in Pointers |-> IdlePress]
      e1 == RunEffect([nodes |-> <<root0>>, edges |-> <<>>], "default",
                      (NoKey :> FreshClosure("default")), << >>, idle, << >>)
      x1 == [[r \in ObjRefs |-> ""] EXCEPT ![<<1, 1>>] = generateExplanation(
                                              [kind |-> "ok", text |-> "tx"])]
      d1 == [nodes |-> <<root1>>, edges |-> <<>>]
      g == addToGraph(d1, x1, 2, root0, items)
      e2 == RunEffect(g.data, "default", e1.closures, e1.bind, idle, << >>)
  IN /\ data = e2.data
     /\ nodeExp = g.exp
     /\ nextId = g.next
     /\ activeNodeId = 1
     /\ loadingNodeId = NoId
     /\ explanation = ""
     /\ isLoadingGraph = FALSE
     /\ isLoadingExplanation = FALSE
     /\ searchMode = "default"
     /\ pending = <<>>
     /\ closures = e2.closures
     /\ current = e2.current
     /\ bind = e2.bind
     /\ presses = idle
     /\ timers = << >>
     /\ pinned = {}
     /\ crashed = FALSE
     /\ last = [MergeGhosts(d1, root0, items) EXCEPT !.op = "searchDone"]

\* the graph of the root "A" with the children "b" and "c"
LoadedInit == Loaded(<<Item("b"), Item("c")>>)

NoChildren == {[kind |-> "error", items |-> <<>>]}

\* the gestures of one pointer on the loaded graph: taps, drags and long
\* presses on every node, and the completions of the expansions they start
GestureNext ==
  \/ \E id \in Ids : Press(1, id)
  \/ Move(1)
  \/ Release(1)
  \/ \E t \in TimerIds : Due(t)
  \/ \E i \in 1..MaxInFlight, ro \in NoChildren : ExpandDone(i, ro)

GestureSpec == LoadedInit /\ [][GestureNext]_vars

\* the gestures of several pointers (touches) at once on the two children,
\* whose handlers come from the same effect run
Children == {2, 3}

TouchNext ==
  \/ \E p \in Pointers, id \in Children : Press(p, id)
  \/ \E p \in Pointers : Move(p)
  \/ \E p \in Pointers : Release(p)
  \/ \E t \in TimerIds : Due(t)
  \/ \E i \in 1..MaxInFlight, ro \in NoChildren : ExpandDone(i, ro)

TouchSpec == LoadedInit /\ [][TouchNext]_vars

\* the mode toggle and the taps and long presses of one pointer on the
\* loaded graph
ModeNext ==
  \/ \E m \in Modes : SetMode(m)
  \/ \E id \in Ids : Press(1, id)
  \/ Release(1)
  \/ \E t \in TimerIds : Due(t)
  \/ \E i \in 1..MaxInFlight, ro \in NoChildren : ExpandDone(i, ro)

ModeSpec == LoadedInit /\ [][ModeNext]_vars

\* oracle answers with items labelled "b", "B" or "c", with and without
\* explanations
MergeBatches == {b \in Batches : \A i \in 1..Len(b) : b[i].label # "a"}
MergeRelated == {[kind |-> "ok", items |-> b] : b \in MergeBatches}

\* the graph of the root "A" with the children of one such answer
MergeInit == \E b \in MergeBatches : Loaded(b)

\* one long press on a node of that graph and the completion of the
\* expansion it starts, while the pointer stays down
MergeNext ==
  \/ \E id \in Ids : Press(1, id)
  \/ \E t \in TimerIds : Due(t)
  \/ \E i \in 1..MaxInFlight, ro \in MergeRelated : ExpandDone(i, ro)

MergeSpec == MergeInit /\ [][MergeNext]_vars

\* the graph of the root "A" with children that have no explanation yet
ExplainInit == \E b \in PlainBatches : Loaded(b)

\* the taps of one pointer on that graph and the completions of the
\* explanation fetches they start: the fetch throws, answers without text,
\* or answers
ExplainNext ==
  \/ \E id \in Ids : Press(1, id)
  \/ Release(1)
  \/ \E i \in 1..MaxInFlight, eo \in ExplanationOutcomes : ExplainDone(i, eo)

ExplainSpec == ExplainInit /\ [][ExplainNext]_vars

\* ----------------------------------------------------------------- claims
EdgeIndices == 1..Len(data.edges)
NodeIndices == 1..Len(data.nodes)
MergeDone == last.op \in {"searchDone", "expandDone"}
\* node.explanation of the node of d with this id
ExplanationOf(d, exp, id) == exp[Ref(NodeOf(d.nodes, id))]

\* C1: in every reachable state every edge's source and target are the id of
\* a node of the current node set.
C1_EdgesReferenceNodes ==
  \A i \in EdgeIndices :
     /\ data.edges[i].source \in NodeIds(data.nodes)
     /\ data.edges[i].target \in NodeIds(data.nodes)

\* C2: no two edges of the graph connect the same unordered pair of node ids.
C2_NoParallelEdges ==
  \A i, j \in EdgeIndices :
     i # j => {data.edges[i].source, data.edges[i].target}
                # {data.edges[j].source, data.edges[j].target}

\* C3: no two nodes of the graph have labels that are equal under
\* case-insensitive comparison.
C3_LabelsUnique ==
  \A i, j \in NodeIndices :
     i # j => ToLower(data.nodes[i].label) # ToLower(data.nodes[j].label)

\* a merge has just handled a batch with a label that differs only in letter
\* case from a node's label or from an earlier item's label
C3_Witness == MergeDone /\ last.caseDup /\ Len(data.nodes) >= 2

\* C4: no edge of the graph has the same node id as source and as target; an
\* item whose label resolves to the source node itself adds no edge.
C4_NoSelfLoops ==
  \A i \in EdgeIndices : data.edges[i].source # data.edges[i].target

\* a merge has just handled an item that resolved to its own source node
C4_Witness == MergeDone /\ last.selfItem

\* C10: when one of the two fetches of a search failed, the completion of the
\* search leaves the graph the single root node without an explanation and
\* without edges.
C10_SearchAllOrNothing ==
  (last.op = "searchDone" /\ (last.relFailed \/ last.expFailed))
    => /\ Len(data.nodes) = 1
       /\ data.edges = <<>>
       /\ nodeExp[Ref(data.nodes[1])] = ""

Released == last.op = "release"

\* C5: a press held for 1000ms without movement has invoked the long-press
\* callback exactly once and invokes no click callback when it is released.
C5_HoldIsLongPressOnly ==
  (Released /\ last.held /\ ~last.moved) => (last.lp = 1 /\ last.click = 0)

\* C6: a press released within 1000ms without movement invokes the click
\* callback exactly once and the long-press callback not at all.
C6_TapIsClickOnly ==
  (Released /\ ~last.held /\ ~last.moved) => (last.click = 1 /\ last.lp = 0)

\* C7: a press that moved before its 1000ms elapsed has invoked neither the
\* click callback nor the long-press callback when it is released.
C7_DragIsNeither ==
  (Released /\ last.movedEarly) => (last.click = 0 /\ last.lp = 0)

\* C8: the long-press callback never runs for a press that was already
\* released or had already started to drag.
C8_NoLateLongPress ==
  last.op = "longPress" => ~last.resolved

\* C9: a press's long-press timer is cancelled exactly when that press itself
\* moved or was released, whatever happens on other nodes.
C9_TimersIndependent ==
  \A t \in DOMAIN timers : timers[t].cleared = timers[t].resolved

\* C11: the completion of an explanation fetch for a node that is no longer
\* the active node leaves the displayed explanation as it was.
C11_StaleExplanationDiscarded ==
  [][(last'.op = "explainDone" /\ last'.stale) => explanation' = explanation]_vars

\* C12: an expansion started by a long press passes the oracle the mode that
\* is selected when it starts, whenever the pressed node was drawn.
C12_ExpansionUsesSelectedMode ==
  last.op = "longPress" => pending[Len(pending)].mode = searchMode

\* C13: a node of the graph that has a non-empty explanation keeps exactly
\* that explanation in every step after which it is still a node of the graph.
C13_ExplanationNeverChanges ==
  [][\A id \in Ids :
       (/\ id \in NodeIds(data.nodes)
        /\ id \in NodeIds(data'.nodes)
        /\ ExplanationOf(data, nodeExp, id) # "")
       => ExplanationOf(data', nodeExp', id) = ExplanationOf(data, nodeExp, id)]_vars

\* C14: the oracle is never asked for the explanation of a node while an
\* explanation fetch for that node is already in flight.
C14_ExplanationFetchedOnce ==
  \A i, j \in 1..Len(pending) :
     (i # j /\ pending[i].kind = "explain" /\ pending[j].kind = "explain")
       => pending[i].node.id # pending[j].node.id

\* C15: a merge whose source node is not a node of the graph adds no edge
\* from that source and does not fail.
C15_MissingSourceSkipped ==
  (MergeDone /\ last.srcMissing)
    => /\ ~crashed
       /\ \A i \in EdgeIndices : data.edges[i].source \in NodeIds(data.nodes)

\* C16: the completion of an expansion whose fetch failed leaves the nodes
\* and edges of the graph as they were, starts no new request, and clears
\* isLoadingGraph and loadingNodeId.
C16_FailedExpansionChangesNothing ==
  [][(last'.op = "expandDone" /\ last'.relFailed)
       => /\ data' = data
          /\ Len(pending') = Len(pending) - 1
          /\ ~isLoadingGraph'
          /\ loadingNodeId' = NoId]_vars

\* an expansion of a node of a graph with edges has just failed
C16_Witness ==
  last.op = "expandDone" /\ last.relFailed /\ ~last.srcMissing /\ data.edges # <<>>

\* C17: an expansion's merge leaves every non-empty explanation of a node as
\* it was; a node without explanation gets one only from an item, and of
\* two items that name it, from the first.
C17_BackfillKeepsExplanation ==
  [][last'.op = "expandDone" =>
       \A i \in 1..Len(data'.nodes) :
          LET n == data'.nodes[i]
              before == IF n.id \in NodeIds(data.nodes)
                        THEN ExplanationOf(data, nodeExp, n.id) ELSE ""
              after == nodeExp'[Ref(n)]
          IN /\ before # "" => after = before
             /\ before = "" => after \in ItemExplanations
             /\ (before = "" /\ ToLower(n.label) = last'.dupKey)
                   => after = last'.dupFirst]_vars

\* a merge has just handled two items with different explanations for a
\* node that kept another explanation, the one it had
C17_Witness ==
  /\ last.op = "expandDone" /\ last.dupKey # ""
  /\ \E i \in NodeIndices :
        /\ ToLower(data.nodes[i].label) = last.dupKey
        /\ nodeExp[Ref(data.nodes[i])] \notin {"", last.dupFirst}

\* C18: a merge of a batch none of whose labels is in the graph adds as
\* many nodes as the batch has different labels, letter case apart.
C18_NodeCountGrowsByDistinctLabels ==
  [][(last'.op = "expandDone" /\ last'.allNew)
       => Len(data'.nodes) = Len(data.nodes) + last'.distinct]_vars

\* a merge has just handled a batch of new labels two of which differ only
\* in letter case
C18_Witness == last.op = "expandDone" /\ last.allNew /\ last.caseDup

\* C19: a merge of an empty item list leaves the nodes and the edges of the
\* graph exactly as they were, in the same order.
C19_EmptyMergeIsIdentity ==
  [][(last'.op = "expandDone" /\ last'.distinct = 0) => data' = data]_vars

\* an expansion of a node of a graph with edges was just answered with no
\* items
C19_Witness ==
  last.op = "expandDone" /\ last.distinct = 0 /\ ~last.relFailed /\ Len(data.edges) >= 2

\* C20: a merge whose items all name the source or nodes the source is
\* already linked to changes neither nodes nor edges; a merge whose items
\* name one node not linked with the source adds no node and one edge.
C20_ReExpansionIdempotent ==
  [][last'.op = "expandDone" =>
       /\ last'.reExp => data' = data
       /\ last'.unlinked =>
            /\ data'.nodes = data.nodes
            /\ Len(data'.edges) = Len(data.edges) + 1
            /\ SubSeq(data'.edges, 1, Len(data.edges)) = data.edges]_vars

\* a re-expansion has just been answered with a label in another letter case
C20_Witness == last.op = "expandDone" /\ last.reExp /\ last.caseDup

\* a node and an edge as the graph identifies them
NodeKey(n) == <<n.id, n.label>>
EdgeKey(e) == <<e.source, e.target, e.relation, e.color>>
\* the step is the start of a new search, which resets the graph
ResetStep ==
  Len(pending') > Len(pending) /\ pending'[Len(pending')].kind = "search"

Pressed == {Ref(presses[p].node) : p \in {q \in Pointers : presses[q].active}}

\* C22: a node is pinned while a pointer is down on it, and no node of the
\* graph is pinned while no pointer is down on it.
C22_PinnedOnlyWhilePressed ==
  /\ Pressed \subseteq pinned
  /\ \A i \in NodeIndices :
        Ref(data.nodes[i]) \in pinned
          => \E p \in Pointers :
                presses[p].active /\ presses[p].node.id = data.nodes[i].id

\* C23: the completion of an explanation fetch that failed leaves the
\* explanation of every node of the graph as it was.
C23_FailedFetchNotCached ==
  [][(last'.op = "explainDone" /\ last'.expFailed)
       => \A id \in NodeIds(data.nodes) :
             ExplanationOf(data', nodeExp', id) = ExplanationOf(data, nodeExp, id)]_vars

\* a search or an expansion is waiting for the oracle
GraphFetchInFlight ==
  \E i \in 1..Len(pending) : pending[i].kind \in {"search", "expand"}

====
